---- MODULE Spec2Model ----
(***************************************************************************)
(* Model of the REVERSI.EXE patching scripts (yop190/reversi):             *)
(*   src/patch_reversi_v3.py      ("v3",     the final corrected script)   *)
(*   src/patch_reversi_v2.py      ("v2",     the corrected script)         *)
(*   src/legacy/patch_reversi.py  ("legacy", the first script)             *)
(*                                                                         *)
(* An image is a sequence of byte values; Python index k is TLA+ index     *)
(* k + 1.  The 15760-byte executable and its offset tables are scaled to   *)
(* a few bytes: the scripts' literal descriptor tables become descriptors  *)
(* drawn from bounded sets, so that matching, mismatching, over-long and   *)
(* out-of-range descriptors all occur.                                     *)
(*                                                                         *)
(* Four specifications share the variables:                                *)
(*   SpecOps      one call of one patch function on an arbitrary image     *)
(*   SpecTwice    two calls in a row on an arbitrary image                 *)
(*   Spec         a whole run of main() of one of the three scripts        *)
(*   SpecStrings  the searched part of the v3 Danish run                   *)
(***************************************************************************)
EXTENDS Integers, Sequences, FiniteSets, TLC

VARIABLES
    version,    \* which script runs: "v3", "v2" or "legacy"
    source,     \* the file REVERSI.EXE: [exists, bytes]
    pc,         \* position in main()
    data,       \* the working bytearray of the current run
    exe_bytes,  \* v3: the immutable snapshot searched by find()
    n,          \* number of table entries the current run has passed
    ok,         \* v3 ok / v2 patches_ok / legacy patches_applied
    fail,       \* v3 fail / v2 patches_fail (legacy keeps no such count)
    danish,     \* the file REVERSI_DA.EXE: [exists, bytes]
    corner,     \* the file REVERSI_2.EXE:  [exists, bytes]
    verdict,    \* what the verification of each output file reported
    log,        \* the outcome lines printed for the descriptors of the current run
    pre,        \* history (SpecOps): the image before the call
    cur,        \* history (SpecOps): the function called and its descriptor
    prev,       \* history (SpecTwice): the call before the last one
    table,      \* history (SpecStrings): the searched entries passed so far
    step,       \* history (Spec): how the last table entry was handled
    ret         \* history: what the last operation returned or raised

vars == <<version, source, pc, data, exe_bytes, n, ok, fail,
          danish, corner, verdict, log, pre, cur, prev, table, step, ret>>

(***************************************************************************)
(* Bounds of the model.                                                    *)
(***************************************************************************)
MaxImageLen == 3      \* SpecOps: longest image
MaxPatchLen == 2      \* longest expected / replacement sequence
BodyLen == 2          \* Spec: bytes of a well-formed image after its two headers
MaxDescriptors == 2   \* Spec: longest table of the Danish run
MaxCornerPatches == 1 \* Spec: longest table of the corner-position run
\* A table ends where the run leaves it: the run may save after any number of
\* entries up to the bound, and n is then the length of its table.

(***************************************************************************)
(* Byte values.                                                            *)
(***************************************************************************)
NUL == 0              \* b'\x00', the default pad_char of patch_string
SPACE == 32           \* b' ', the pad of the safe_patch functions

\* Sample values: NUL, the letter A, and U+00E6 (outside ASCII, inside latin-1)
ImageBytes == {0, 65}
TextChars == {0, 65, 230}

RECURSIVE SeqsUpTo(_, _)
SeqsUpTo(S, k) ==
    IF k = 0 THEN {<<>>}
    ELSE LET shorter == SeqsUpTo(S, k - 1)
         IN  shorter \cup {Append(s, x) : s \in {t \in shorter : Len(t) = k - 1}, x \in S}

Min(a, b) == IF a < b THEN a ELSE b
Max(a, b) == IF a > b THEN a ELSE b

(***************************************************************************)
(* Python sequence primitives.                                             *)
(***************************************************************************)
\* s[a:b] for 0 <= a: clipped to the sequence, empty when a >= len(s)
Slice(s, a, b) ==
    LET hi == Min(b, Len(s))
    IN  IF a >= hi THEN <<>> ELSE SubSeq(s, a + 1, hi)

\* pad * k
Repeat(b, k) == [i \in 1..Max(k, 0) |-> b]

\* bytes.find(needle): lowest index of an occurrence, -1 when there is none
Find(hay, needle) ==
    LET hits == {i \in 0..Len(hay) : Slice(hay, i, i + Len(needle)) = needle
                                     /\ i + Len(needle) <= Len(hay)}
    IN  IF hits = {} THEN -1 ELSE CHOOSE i \in hits : \A j \in hits : i <= j

\* for i, b in enumerate(new_bytes): data[offset + i] = b
\* An index past the end raises IndexError and keeps the bytes already written.
RECURSIVE WriteFrom(_, _, _, _)
WriteFrom(d, offset, new_bytes, i) ==
    IF i > Len(new_bytes) THEN [data |-> d, raised |-> FALSE]
    ELSE IF offset + i > Len(d) THEN [data |-> d, raised |-> TRUE]
    ELSE WriteFrom([d EXCEPT ![offset + i] = new_bytes[i]], offset, new_bytes, i + 1)

WriteLoop(d, offset, new_bytes) == WriteFrom(d, offset, new_bytes, 1)

\* data[a:b] = new_bytes on a bytearray: the slice is replaced, whatever its length
SliceAssign(d, a, b, new_bytes) ==
    LET lo == Min(a, Len(d))
        hi == Max(lo, Min(b, Len(d)))
    IN  SubSeq(d, 1, lo) \o new_bytes \o SubSeq(d, hi + 1, Len(d))

\* str.encode('ascii') / str.encode('latin-1'): the code points as bytes,
\* UnicodeEncodeError when one of them is above the codec's range
Encode(str, limit) ==
    IF \E i \in 1..Len(str) : str[i] > limit
    THEN [ok |-> FALSE, bytes |-> <<>>]
    ELSE [ok |-> TRUE, bytes |-> str]

EncodeAscii(str) == Encode(str, 127)
EncodeLatin1(str) == Encode(str, 255)

(***************************************************************************)
(* The patch functions.  Each returns the image it leaves behind and what  *)
(* the call returned ("True", "False") or raised (the exception's name).   *)
(***************************************************************************)
\* tag is the line the call prints: "OK", "LEN ERR", "MISMATCH", "ERROR", "" (nothing)
Outcome(d, r, tag) == [data |-> d, ret |-> r, tag |-> tag]

\* patch_exact without the comparison of the pre-image
PatchExactUnverified(d, offset, old_bytes, new_bytes) ==
    IF Len(old_bytes) # Len(new_bytes) THEN Outcome(d, "False", "LEN ERR")
    ELSE LET w == WriteLoop(d, offset, new_bytes)
         IN  IF w.raised THEN Outcome(w.data, "IndexError", "")
             ELSE Outcome(w.data, "True", "OK")

\* patch_exact writing one position too far: data[offset + i + 1] = b
PatchExactShifted(d, offset, old_bytes, new_bytes) ==
    IF Len(old_bytes) # Len(new_bytes) THEN Outcome(d, "False", "LEN ERR")
    ELSE IF Slice(d, offset, offset + Len(old_bytes)) # old_bytes
         THEN Outcome(d, "False", "MISMATCH")
    ELSE LET w == WriteLoop(d, offset + 1, new_bytes)
         IN  IF w.raised THEN Outcome(w.data, "IndexError", "")
             ELSE Outcome(w.data, "True", "OK")

\* patch_exact raising on a length error, as legacy patch_bytes does
PatchExactRaising(d, offset, old_bytes, new_bytes) ==
    IF Len(old_bytes) # Len(new_bytes) THEN Outcome(d, "ValueError", "")
    ELSE IF Slice(d, offset, offset + Len(old_bytes)) # old_bytes
         THEN Outcome(d, "False", "MISMATCH")
    ELSE LET w == WriteLoop(d, offset, new_bytes)
         IN  IF w.raised THEN Outcome(w.data, "IndexError", "")
             ELSE Outcome(w.data, "True", "OK")

\* patch_exact writing before it compares
PatchExactEager(d, offset, old_bytes, new_bytes) ==
    IF Len(old_bytes) # Len(new_bytes) THEN Outcome(d, "False", "LEN ERR")
    ELSE LET w == WriteLoop(d, offset, new_bytes)
         IN  IF Slice(d, offset, offset + Len(old_bytes)) # old_bytes
             THEN Outcome(w.data, "False", "MISMATCH")
             ELSE IF w.raised THEN Outcome(w.data, "IndexError", "")
             ELSE Outcome(w.data, "True", "OK")

\* patch_exact comparing the first byte of the range only
PatchExactFirstByte(d, offset, old_bytes, new_bytes) ==
    IF Len(old_bytes) # Len(new_bytes) THEN Outcome(d, "False", "LEN ERR")
    ELSE IF Slice(d, offset, offset + 1) # Slice(old_bytes, 0, 1)
         THEN Outcome(d, "False", "MISMATCH")
    ELSE LET w == WriteLoop(d, offset, new_bytes)
         IN  IF w.raised THEN Outcome(w.data, "IndexError", "")
             ELSE Outcome(w.data, "True", "OK")

\* patch_exact writing one more byte (the letter A) after the replacement
\* when the image has room for it
PatchExactTrailing(d, offset, old_bytes, new_bytes) ==
    IF Len(old_bytes) # Len(new_bytes) THEN Outcome(d, "False", "LEN ERR")
    ELSE IF Slice(d, offset, offset + Len(old_bytes)) # old_bytes
         THEN Outcome(d, "False", "MISMATCH")
    ELSE LET more == IF offset + Len(new_bytes) < Len(d)
                     THEN new_bytes \o <<65>> ELSE new_bytes
             w == WriteLoop(d, offset, more)
         IN  IF w.raised THEN Outcome(w.data, "IndexError", "")
             ELSE Outcome(w.data, "True", "OK")

\* patch_exact also writing the letter A into the byte before the range
PatchExactLeading(d, offset, old_bytes, new_bytes) ==
    IF Len(old_bytes) # Len(new_bytes) THEN Outcome(d, "False", "LEN ERR")
    ELSE IF Slice(d, offset, offset + Len(old_bytes)) # old_bytes
         THEN Outcome(d, "False", "MISMATCH")
    ELSE LET w == IF offset >= 1 /\ Len(new_bytes) >= 1
                  THEN WriteLoop(d, offset - 1, <<65>> \o new_bytes)
                  ELSE WriteLoop(d, offset, new_bytes)
         IN  IF w.raised THEN Outcome(w.data, "IndexError", "")
             ELSE Outcome(w.data, "True", "OK")

\* v3 patch_exact(data, offset, old_bytes, new_bytes, description)
PatchExact(d, offset, old_bytes, new_bytes) ==
    IF Len(old_bytes) # Len(new_bytes) THEN Outcome(d, "False", "LEN ERR")
    ELSE IF Slice(d, offset, offset + Len(old_bytes)) # old_bytes
         THEN Outcome(d, "False", "MISMATCH")
    ELSE LET w == WriteLoop(d, offset, new_bytes)
         IN  IF w.raised THEN Outcome(w.data, "IndexError", "")
             ELSE Outcome(w.data, "True", "OK")

\* v2 patch_bytes_at(data, offset, new_bytes, description)
PatchBytesAt(d, offset, new_bytes) ==
    LET w == WriteLoop(d, offset, new_bytes)
    IN  IF w.raised THEN Outcome(w.data, "IndexError", "")
        ELSE Outcome(w.data, "True", "")

\* safe_patch_menu_string padding on the left: b' ' * k + new_bytes
SafePatchMenuStringLeftPad(d, offset, old_str, new_str) ==
    LET old_enc == EncodeAscii(old_str)
        new_enc == EncodeAscii(new_str)
        old_bytes == old_enc.bytes
        new_bytes == new_enc.bytes
        padded == Repeat(SPACE, Len(old_bytes) - Len(new_bytes)) \o new_bytes
    IN  IF ~old_enc.ok \/ ~new_enc.ok THEN Outcome(d, "UnicodeEncodeError", "")
        ELSE IF Len(new_bytes) > Len(old_bytes) THEN Outcome(d, "False", "ERROR")
        ELSE IF Slice(d, offset, offset + Len(old_bytes)) # old_bytes
             THEN Outcome(d, "False", "MISMATCH")
        ELSE LET w == WriteLoop(d, offset, padded)
             IN  IF w.raised THEN Outcome(w.data, "IndexError", "")
                 ELSE Outcome(w.data, "True", "OK")

\* v2 safe_patch_menu_string(data, offset, old_str, new_str, description)
SafePatchMenuString(d, offset, old_str, new_str) ==
    LET old_enc == EncodeAscii(old_str)
        new_enc == EncodeAscii(new_str)
        old_bytes == old_enc.bytes
        new_bytes == new_enc.bytes
        padded == new_bytes \o Repeat(SPACE, Len(old_bytes) - Len(new_bytes))
    IN  IF ~old_enc.ok \/ ~new_enc.ok THEN Outcome(d, "UnicodeEncodeError", "")
        ELSE IF Len(new_bytes) > Len(old_bytes) THEN Outcome(d, "False", "ERROR")
        ELSE IF Slice(d, offset, offset + Len(old_bytes)) # old_bytes
             THEN Outcome(d, "False", "MISMATCH")
        ELSE LET w == WriteLoop(d, offset, padded)
             IN  IF w.raised THEN Outcome(w.data, "IndexError", "")
                 ELSE Outcome(w.data, "True", "OK")

\* safe_patch_pascal_string that also stores len(new_bytes) in the count byte
\* ("We also need to update the length byte!")
SafePatchPascalStringCount(d, offset, old_str, new_str) ==
    LET old_enc == EncodeAscii(old_str)
        new_enc == EncodeAscii(new_str)
        old_bytes == old_enc.bytes
        new_bytes == new_enc.bytes
    IN  IF ~old_enc.ok \/ ~new_enc.ok THEN Outcome(d, "UnicodeEncodeError", "")
        ELSE IF Len(new_bytes) > Len(old_bytes) THEN Outcome(d, "False", "ERROR")
        ELSE IF Slice(d, offset, offset + Len(old_bytes)) # old_bytes
             THEN Outcome(d, "False", "MISMATCH")
        ELSE LET padded == new_bytes \o Repeat(SPACE, Len(old_bytes) - Len(new_bytes))
                 w == WriteLoop(d, offset, padded)
                 counted == IF offset >= 1 /\ offset <= Len(w.data)
                            THEN [w.data EXCEPT ![offset] = Len(new_bytes)]
                            ELSE w.data
             IN  IF w.raised THEN Outcome(w.data, "IndexError", "")
                 ELSE Outcome(counted, "True", "OK")

\* v2 safe_patch_pascal_string(data, offset, old_str, new_str, description):
\* the string data starts at offset, its count byte is at offset - 1
SafePatchPascalString(d, offset, old_str, new_str) ==
    LET old_enc == EncodeAscii(old_str)
        new_enc == EncodeAscii(new_str)
        old_bytes == old_enc.bytes
        new_bytes == new_enc.bytes
    IN  IF ~old_enc.ok \/ ~new_enc.ok THEN Outcome(d, "UnicodeEncodeError", "")
        ELSE IF Len(new_bytes) > Len(old_bytes) THEN Outcome(d, "False", "ERROR")
        ELSE IF Slice(d, offset, offset + Len(old_bytes)) # old_bytes
             THEN Outcome(d, "False", "MISMATCH")
        ELSE LET padded == new_bytes \o Repeat(SPACE, Len(old_bytes) - Len(new_bytes))
                 w == WriteLoop(d, offset, padded)
             IN  IF w.raised THEN Outcome(w.data, "IndexError", "")
                 ELSE Outcome(w.data, "True", "OK")

\* patch_bytes with a slice one byte too wide: data[offset:offset+len(new)+1]
PatchBytesWide(d, offset, old_bytes, new_bytes) ==
    IF Len(old_bytes) # Len(new_bytes) THEN Outcome(d, "ValueError", "")
    ELSE IF Slice(d, offset, offset + Len(old_bytes)) # old_bytes
         THEN Outcome(d, "False", "MISMATCH")
    ELSE Outcome(SliceAssign(d, offset, offset + Len(new_bytes) + 1, new_bytes), "True", "")

\* legacy patch_bytes(data, offset, old_bytes, new_bytes)
PatchBytes(d, offset, old_bytes, new_bytes) ==
    IF Len(old_bytes) # Len(new_bytes) THEN Outcome(d, "ValueError", "")
    ELSE IF Slice(d, offset, offset + Len(old_bytes)) # old_bytes
         THEN Outcome(d, "False", "MISMATCH")
    ELSE Outcome(SliceAssign(d, offset, offset + Len(new_bytes), new_bytes), "True", "")

\* legacy patch_string(data, offset, old_str, new_str, pad_char=b'\x00')
PatchString(d, offset, old_str, new_str, pad_char) ==
    LET old_enc == EncodeLatin1(old_str)
        new_enc == EncodeLatin1(new_str)
        old_bytes == old_enc.bytes
        new_bytes == new_enc.bytes
        padded == new_bytes \o Repeat(pad_char, Len(old_bytes) - Len(new_bytes))
    IN  IF ~old_enc.ok \/ ~new_enc.ok THEN Outcome(d, "UnicodeEncodeError", "")
        ELSE IF Len(new_bytes) > Len(old_bytes) THEN Outcome(d, "ValueError", "")
        ELSE PatchBytes(d, offset, old_bytes, padded)

(***************************************************************************)
(* SpecOps: one call of one patch function.  The image, the offset and     *)
(* the descriptor are arbitrary within the bounds.                         *)
(***************************************************************************)
Images == SeqsUpTo(ImageBytes, MaxImageLen)
Offsets == 0..MaxImageLen
OldSeqs == SeqsUpTo(ImageBytes, MaxPatchLen)
NewSeqs == SeqsUpTo(TextChars, MaxPatchLen)

NoFile == [exists |-> FALSE, bytes |-> <<>>]
File(b) == [exists |-> TRUE, bytes |-> b]
NoCheck == [ret |-> "none", warn |-> FALSE]
NoVerdict == [danish_run |-> "none", danish_check |-> NoCheck,
              corner_run |-> "none", corner_check |-> NoCheck]
NoStep == [op |-> "none", matched |-> FALSE, fits |-> FALSE, excess |-> 0,
           changed |-> FALSE]
Call(op, offset, old, new) == [op |-> op, offset |-> offset, old |-> old, new |-> new]
NoCall == Call("none", 0, <<>>, <<>>)
NoPrev == [cur |-> NoCall, pre |-> <<>>, ret |-> "none"]

InitOps ==
    /\ data \in Images
    /\ pre = data
    /\ cur = NoCall
    /\ prev = NoPrev
    /\ table = <<>>
    /\ ret = "none"
    /\ pc = "call"
    /\ version = "none"
    /\ source = NoFile
    /\ exe_bytes = <<>>
    /\ n = 0
    /\ ok = 0
    /\ fail = 0
    /\ danish = NoFile
    /\ corner = NoFile
    /\ verdict = NoVerdict
    /\ log = <<>>
    /\ step = NoStep

RunUnchanged ==
    UNCHANGED <<version, source, exe_bytes, n, ok, fail, danish, corner,
                verdict, log, table, step>>

\* the call returns (or raises): record it
Returned(op, offset, old, new, out) ==
    /\ pc' = "returned"
    /\ pre' = data
    /\ cur' = Call(op, offset, old, new)
    /\ prev' = [cur |-> cur, pre |-> pre, ret |-> ret]
    /\ data' = out.data
    /\ ret' = out.ret
    /\ RunUnchanged

CallPatchExact ==
    /\ pc = "call"
    /\ \E offset \in Offsets, old \in OldSeqs, new \in NewSeqs :
        Returned("patch_exact", offset, old, new, PatchExact(data, offset, old, new))

CallSafePatchMenuString ==
    /\ pc = "call"
    /\ \E offset \in Offsets, old \in OldSeqs, new \in NewSeqs :
        Returned("safe_patch_menu_string", offset, old, new,
                 SafePatchMenuString(data, offset, old, new))

CallSafePatchPascalString ==
    /\ pc = "call"
    /\ \E offset \in Offsets, old \in OldSeqs, new \in NewSeqs :
        Returned("safe_patch_pascal_string", offset, old, new,
                 SafePatchPascalString(data, offset, old, new))

CallPatchBytes ==
    /\ pc = "call"
    /\ \E offset \in Offsets, old \in OldSeqs, new \in NewSeqs :
        Returned("patch_bytes", offset, old, new, PatchBytes(data, offset, old, new))

CallPatchString ==
    /\ pc = "call"
    /\ \E offset \in Offsets, old \in OldSeqs, new \in NewSeqs :
        Returned("patch_string", offset, old, new,
                 PatchString(data, offset, old, new, NUL))

CallPatchBytesAt ==
    /\ pc = "call"
    /\ \E offset \in Offsets, new \in NewSeqs :
        Returned("patch_bytes_at", offset, <<>>, new, PatchBytesAt(data, offset, new))

NextOps ==
    \/ CallPatchExact
    \/ CallSafePatchMenuString
    \/ CallSafePatchPascalString
    \/ CallPatchBytes
    \/ CallPatchString
    \/ CallPatchBytesAt

SpecOps == InitOps /\ [][NextOps]_vars

(***************************************************************************)
(* SpecTwice: two calls in a row on the same image: the same descriptor    *)
(* again (patch_exact, patch_bytes), or a second descriptor (patch_exact). *)
(* The replacements are runs of the letter A.                              *)
(***************************************************************************)
TwiceOps == {"patch_exact", "patch_bytes"}
TwiceNew == SeqsUpTo({65}, MaxPatchLen)

Apply(op, d, offset, old, new) ==
    IF op = "patch_bytes" THEN PatchBytes(d, offset, old, new)
    ELSE PatchExact(d, offset, old, new)

\* the second call returns (or raises): record it, and keep the first call
ReturnedAgain(op, offset, old, new, out) ==
    /\ pc' = "returned2"
    /\ pre' = data
    /\ cur' = Call(op, offset, old, new)
    /\ prev' = [cur |-> cur, pre |-> pre, ret |-> ret]
    /\ data' = out.data
    /\ ret' = out.ret
    /\ RunUnchanged

FirstCall ==
    /\ pc = "call"
    /\ \E op \in TwiceOps, offset \in Offsets, old \in OldSeqs, new \in TwiceNew :
        Returned(op, offset, old, new, Apply(op, data, offset, old, new))

\* the same function called again with the same offset, expected bytes and
\* replacement
Reapply ==
    /\ pc = "returned"
    /\ ReturnedAgain(cur.op, cur.offset, cur.old, cur.new,
                     Apply(cur.op, data, cur.offset, cur.old, cur.new))

\* patch_exact called for the next descriptor of a table
NextPatchExact ==
    /\ pc = "returned"
    /\ cur.op = "patch_exact"
    /\ \E offset \in Offsets, old \in OldSeqs, new \in TwiceNew :
        ReturnedAgain("patch_exact", offset, old, new, PatchExact(data, offset, old, new))

NextTwice ==
    \/ FirstCall
    \/ Reapply
    \/ NextPatchExact

SpecTwice == InitOps /\ [][NextTwice]_vars

(***************************************************************************)
(* Spec: a run of main().  The image layout is scaled: the MZ marker at 0, *)
(* the NE marker right after it (0x400 in the executable), then BodyLen    *)
(* bytes of resources (15760 bytes in all in the executable).  The tables  *)
(* of the scripts are ASCII literals; their entries are drawn here from    *)
(* every offset and every ASCII byte sequence within the bounds.           *)
(***************************************************************************)
MzMagic == <<77, 90>>                 \* b'MZ'
NeMagic == <<78, 69>>                 \* b'NE'
NeOffset == Len(MzMagic)              \* ne_offset = 0x400, scaled
ExpectedSize == NeOffset + Len(NeMagic) + BodyLen   \* expected_size = 15760, scaled
MenuStart == NeOffset + Len(NeMagic)  \* menu_start = 0x3B60, scaled
MenuEnd == ExpectedSize               \* menu_end = 0x3BE0, scaled

\* a count byte (1) and the letter A
RunBytes == {1, 65}
\* table offsets: from the last header byte to the end of a well-formed image
RunOffsets == (MenuStart - 1)..ExpectedSize
\* original strings, and their translations (runs of the letter A)
RunSeqs == SeqsUpTo(RunBytes, MaxPatchLen)
RunNew == SeqsUpTo({65}, MaxPatchLen)

\* REVERSI.EXE as found on disk: well-formed (every body), one byte short
\* (every body), one byte long, or with a damaged MZ or NE marker
BodiesOfLen(k) == {b \in SeqsUpTo(RunBytes, k) : Len(b) = k}
LetterBody(k) == [i \in 1..k |-> 65]
Sources ==
    {MzMagic \o NeMagic \o b : b \in BodiesOfLen(BodyLen) \cup BodiesOfLen(BodyLen - 1)}
    \cup {MzMagic \o NeMagic \o LetterBody(BodyLen + 1),
          <<65, 90>> \o NeMagic \o LetterBody(BodyLen),
          MzMagic \o <<65, 69>> \o LetterBody(BodyLen)}

HasMagic(d) == Slice(d, 0, 2) = MzMagic
HasNeHeader(d) == Slice(d, NeOffset, NeOffset + 2) = NeMagic

\* v3/v2 long messages: pad with b' ' or cut to len(old_msg)
FitSpace(new, k) ==
    IF Len(new) < k THEN new \o Repeat(SPACE, k - Len(new))
    ELSE IF Len(new) > k THEN SubSeq(new, 1, k)
    ELSE new

\* legacy translations loop: pad with '\x00' or cut to len(old_str)
FitNul(new, k) ==
    IF Len(new) < k THEN new \o Repeat(NUL, k - Len(new))
    ELSE IF Len(new) > k THEN SubSeq(new, 1, k)
    ELSE new

\* v3 verify_patched_file(filename): warns, and returns True whatever it finds
VerifyPatchedFile(d) ==
    [ret |-> "True", warn |-> (Len(d) # ExpectedSize) \/ ~HasNeHeader(d)]

\* v2 verify_menu_structure(filename): three NUL bytes in a row in the menu area
VerifyMenuStructure(d) ==
    LET menu_data == Slice(d, MenuStart, MenuEnd)
        issues == {i \in 0..(Len(menu_data) - 3) :
                      menu_data[i + 1] = 0 /\ menu_data[i + 2] = 0 /\ menu_data[i + 3] = 0}
    IN  [ret |-> IF issues = {} THEN "True" ELSE "False", warn |-> issues # {}]

\* legacy verify_exe(filename)
VerifyExe(d) ==
    IF ~HasMagic(d) THEN [ret |-> "False", warn |-> TRUE]
    ELSE IF ~HasNeHeader(d) THEN [ret |-> "False", warn |-> TRUE]
    ELSE [ret |-> "True", warn |-> FALSE]

Raised(r) == r \notin {"True", "False"}
\* excess: len(new) - len(old) of the table entry, before any fitting
Step(op, matched, excess, changed) ==
    [op |-> op, matched |-> matched, fits |-> (excess = 0), excess |-> excess,
     changed |-> changed]
Matches(d, offset, old) == Slice(d, offset, offset + Len(old)) = old

Init ==
    /\ version \in {"v3", "v2", "legacy"}
    /\ source \in {NoFile} \cup {File(b) : b \in Sources}
    /\ pc = "start"
    /\ data = <<>>
    /\ exe_bytes = <<>>
    /\ n = 0
    /\ ok = 0
    /\ fail = 0
    /\ danish = NoFile
    /\ corner = NoFile
    /\ verdict = NoVerdict
    /\ log = <<>>
    /\ pre = <<>>
    /\ cur = NoCall
    /\ prev = NoPrev
    /\ table = <<>>
    /\ step = NoStep
    /\ ret = "none"

OpsUnchanged == UNCHANGED <<pre, cur, prev, table>>

\* main: if not os.path.exists(source): return 1
MainMissing ==
    /\ pc = "start"
    /\ ~source.exists
    /\ pc' = "exit1"
    /\ UNCHANGED <<version, source, data, exe_bytes, n, ok, fail, danish,
                   corner, verdict, log, step, ret>>
    /\ OpsUnchanged

\* create_danish_version: data = read_exe(source_file); the counters start at 0
DanishBegin ==
    /\ pc = "start"
    /\ source.exists
    /\ data' = source.bytes
    /\ n' = 0
    /\ ok' = 0
    /\ fail' = 0
    /\ log' = <<>>
    /\ pc' = IF version = "v3" THEN "menu" ELSE "danish"
    /\ UNCHANGED <<version, source, exe_bytes, danish, corner, verdict, step, ret>>
    /\ OpsUnchanged

\* if patch(...): ok += 1 / else: fail += 1, then the next statement of the
\* run; an exception leaves the run (crashTo)
Tally(op, out, tag, matched, excess, crashTo) ==
    /\ data' = out.data
    /\ ret' = out.ret
    /\ n' = n + 1
    /\ ok' = IF out.ret = "True" THEN ok + 1 ELSE ok
    /\ fail' = IF out.ret = "False" /\ version # "legacy" THEN fail + 1 ELSE fail
    /\ log' = IF Raised(out.ret) THEN log ELSE Append(log, tag)
    /\ step' = Step(op, matched, excess, out.data # data)
    /\ pc' = IF Raised(out.ret) THEN crashTo ELSE pc
    /\ UNCHANGED <<version, source, exe_bytes, danish, corner, verdict>>

Counted(op, out, tag, matched, excess, crashTo) ==
    /\ Tally(op, out, tag, matched, excess, crashTo)
    /\ OpsUnchanged

\* v3 menu strings: patch_exact at a literal offset
V3_MenuPatch ==
    /\ pc = "menu"
    /\ n < MaxDescriptors
    /\ \E offset \in RunOffsets, old \in RunSeqs, new \in RunNew :
          LET out == PatchExact(data, offset, old, new)
          IN  Counted("patch_exact", out, out.tag, Matches(data, offset, old),
                      Len(new) - Len(old), "crashed")

\* v3: exe_bytes = bytes(data), after the menu patches
V3_Snapshot ==
    /\ pc = "menu"
    /\ exe_bytes' = data
    /\ pc' = "strings"
    /\ UNCHANGED <<version, source, data, n, ok, fail, danish, corner,
                   verdict, log, step, ret>>
    /\ OpsUnchanged

\* v3: find() returned -1: the descriptor is passed over, nothing is counted
\* or printed
Skipped ==
    /\ n' = n + 1
    /\ step' = [NoStep EXCEPT !.op = "not found"]
    /\ ret' = "none"
    /\ UNCHANGED <<version, source, pc, data, exe_bytes, ok, fail, danish,
                   corner, verdict, log>>

NotFound ==
    /\ Skipped
    /\ OpsUnchanged

\* v3 "Pass": find the string with its count byte, patch one byte further
V3_PascalFindPatch ==
    /\ pc = "strings"
    /\ n < MaxDescriptors
    /\ \E old \in RunSeqs, new \in RunNew :
          LET pass_offset == Find(exe_bytes, <<Len(old)>> \o old)
              out == PatchExact(data, pass_offset + 1, old, new)
          IN  IF pass_offset >= 0
              THEN Counted("patch_exact", out, out.tag, Matches(data, pass_offset + 1, old),
                           Len(new) - Len(old), "crashed")
              ELSE NotFound

\* v3 string table and "You must Pass": find the string, patch where it was found
V3_FindPatch ==
    /\ pc = "strings"
    /\ n < MaxDescriptors
    /\ \E old \in RunSeqs, new \in RunNew :
          LET tie_offset == Find(exe_bytes, old)
              out == PatchExact(data, tie_offset, old, new)
          IN  IF tie_offset >= 0
              THEN Counted("patch_exact", out, out.tag, Matches(data, tie_offset, old),
                           Len(new) - Len(old), "crashed")
              ELSE NotFound

\* v3 long error messages: find the message, fit the translation, patch
V3_MsgPatch ==
    /\ pc = "strings"
    /\ n < MaxDescriptors
    /\ \E old_msg1 \in RunSeqs, new \in RunNew :
          LET msg1_offset == Find(exe_bytes, old_msg1)
              new_msg1 == FitSpace(new, Len(old_msg1))
              out == PatchExact(data, msg1_offset, old_msg1, new_msg1)
          IN  IF msg1_offset >= 0
              THEN Counted("patch_exact", out, out.tag, Matches(data, msg1_offset, old_msg1),
                           Len(new) - Len(old_msg1), "crashed")
              ELSE NotFound

\* v2 menu_patches loop: its own length check, then safe_patch_menu_string
V2_MenuPatch ==
    /\ pc = "danish"
    /\ version = "v2"
    /\ n < MaxDescriptors
    /\ \E offset \in RunOffsets, old_str \in RunSeqs, new_str \in RunNew :
          LET out == IF Len(old_str) # Len(new_str)
                     THEN Outcome(data, "False", "LENGTH ERROR")
                     ELSE SafePatchMenuString(data, offset, old_str, new_str)
          IN  Counted("safe_patch_menu_string", out, out.tag, Matches(data, offset, old_str),
                      Len(new_str) - Len(old_str), "crashed")

\* v2 string_patches loop: its own length check, then safe_patch_pascal_string
V2_StringPatch ==
    /\ pc = "danish"
    /\ version = "v2"
    /\ n < MaxDescriptors
    /\ \E offset \in RunOffsets, old_str \in RunSeqs, new_str \in RunNew :
          LET out == IF Len(old_str) # Len(new_str)
                     THEN Outcome(data, "False", "LENGTH ERROR")
                     ELSE SafePatchPascalString(data, offset, old_str, new_str)
          IN  Counted("safe_patch_pascal_string", out, out.tag,
                      Matches(data, offset, old_str), Len(new_str) - Len(old_str), "crashed")

\* v2 long error messages: fit the translation, then safe_patch_pascal_string
V2_MsgPatch ==
    /\ pc = "danish"
    /\ version = "v2"
    /\ n < MaxDescriptors
    /\ \E offset \in RunOffsets, old_msg1 \in RunSeqs, new \in RunNew :
          LET new_msg1 == FitSpace(new, Len(old_msg1))
              out == SafePatchPascalString(data, offset, old_msg1, new_msg1)
          IN  Counted("safe_patch_pascal_string", out, out.tag,
                      Matches(data, offset, old_msg1), Len(new) - Len(old_msg1), "crashed")

\* legacy translations loop: fit with '\x00', patch_string, count the applied
\* ones; main() catches an exception and goes on with the corner version
Legacy_Translate ==
    /\ pc = "danish"
    /\ version = "legacy"
    /\ n < MaxDescriptors
    /\ \E offset \in RunOffsets, old_str \in RunSeqs, new \in RunNew :
          LET new_str == FitNul(new, Len(old_str))
              out == PatchString(data, offset, old_str, new_str, NUL)
          IN  Counted("patch_string", out, IF out.ret = "True" THEN "OK" ELSE "FAIL",
                      Matches(data, offset, old_str), Len(new) - Len(old_str),
                      "corner_start")

\* what create_danish_version returns
DanishReturn ==
    IF version = "legacy" THEN (IF ok > 0 THEN "True" ELSE "False")
    ELSE (IF fail = 0 THEN "True" ELSE "False")

\* write_exe(output_file, data); return ...
DanishSave ==
    /\ pc = IF version = "v3" THEN "strings" ELSE "danish"
    /\ danish' = File(data)
    /\ verdict' = [verdict EXCEPT !.danish_run = DanishReturn]
    /\ pc' = "danish_saved"
    /\ UNCHANGED <<version, source, data, exe_bytes, n, ok, fail, corner,
                   log, step, ret>>
    /\ OpsUnchanged

\* main: verify_patched_file / verify_menu_structure / verify_exe on the
\* Danish file; the locals of create_danish_version are gone
VerifyDanish ==
    /\ pc = "danish_saved"
    /\ verdict' = [verdict EXCEPT !.danish_check =
                      CASE version = "v3" -> VerifyPatchedFile(danish.bytes)
                        [] version = "v2" -> VerifyMenuStructure(danish.bytes)
                        [] OTHER -> VerifyExe(danish.bytes)]
    /\ pc' = "corner_start"
    /\ data' = <<>>
    /\ exe_bytes' = <<>>
    /\ n' = 0
    /\ ok' = 0
    /\ fail' = 0
    /\ log' = <<>>
    /\ step' = NoStep
    /\ ret' = "none"
    /\ UNCHANGED <<version, source, danish, corner>>
    /\ OpsUnchanged

\* create_corner_version reading the Danish file instead of the source
CornerBeginFromDanish ==
    /\ pc = "corner_start"
    /\ data' = danish.bytes
    /\ n' = 0
    /\ ok' = 0
    /\ fail' = 0
    /\ log' = <<>>
    /\ step' = NoStep
    /\ ret' = "none"
    /\ exe_bytes' = <<>>
    /\ pc' = "corner"
    /\ UNCHANGED <<version, source, danish, corner, verdict>>
    /\ OpsUnchanged

\* create_corner_version: data = read_exe(source_file)
CornerBegin ==
    /\ pc = "corner_start"
    /\ data' = source.bytes
    /\ n' = 0
    /\ ok' = 0
    /\ fail' = 0
    /\ log' = <<>>
    /\ step' = NoStep
    /\ ret' = "none"
    /\ exe_bytes' = <<>>
    /\ pc' = "corner"
    /\ UNCHANGED <<version, source, danish, corner, verdict>>
    /\ OpsUnchanged

\* v3 corner patches: the bytes are written where the table says, unchecked
V3_CornerPatch ==
    /\ pc = "corner"
    /\ version = "v3"
    /\ n < MaxCornerPatches
    /\ \E offset \in RunOffsets, new_bytes \in RunNew :
          LET w == WriteLoop(data, offset, new_bytes)
              out == Outcome(w.data, IF w.raised THEN "IndexError" ELSE "True", "OK")
          IN  Counted("write", out, out.tag, FALSE, 0, "crashed")

\* v2 corner patches: patch_bytes_at
V2_CornerPatch ==
    /\ pc = "corner"
    /\ version = "v2"
    /\ n < MaxCornerPatches
    /\ \E offset \in RunOffsets, new_bytes \in RunNew :
          LET out == PatchBytesAt(data, offset, new_bytes)
          IN  Counted("patch_bytes_at", out, "OK", FALSE, 0, "crashed")

\* legacy corner patches: patch_bytes with the original instruction bytes
Legacy_CornerPatch ==
    /\ pc = "corner"
    /\ version = "legacy"
    /\ n < MaxCornerPatches
    /\ \E offset \in RunOffsets, old_bytes \in RunSeqs, new_bytes \in RunNew :
          LET out == PatchBytes(data, offset, old_bytes, new_bytes)
          IN  Counted("patch_bytes", out, IF out.ret = "True" THEN "OK" ELSE "FAIL",
                      Matches(data, offset, old_bytes), Len(new_bytes) - Len(old_bytes),
                      "done")

\* what create_corner_version returns
CornerReturn ==
    IF version = "legacy" THEN (IF ok = n THEN "True" ELSE "False")
    ELSE "True"

\* write_exe(output_file, data); return ...
CornerSave ==
    /\ pc = "corner"
    /\ n >= 1
    /\ corner' = File(data)
    /\ verdict' = [verdict EXCEPT !.corner_run = CornerReturn]
    /\ pc' = "corner_saved"
    /\ UNCHANGED <<version, source, data, exe_bytes, n, ok, fail, danish,
                   log, step, ret>>
    /\ OpsUnchanged

\* main: verify_patched_file / verify_exe on the corner file; v2 verifies
\* the Danish file only
VerifyCorner ==
    /\ pc = "corner_saved"
    /\ verdict' = [verdict EXCEPT !.corner_check =
                      CASE version = "v3" -> VerifyPatchedFile(corner.bytes)
                        [] version = "v2" -> NoCheck
                        [] OTHER -> VerifyExe(corner.bytes)]
    /\ pc' = "done"
    /\ UNCHANGED <<version, source, data, exe_bytes, n, ok, fail, danish,
                   corner, log, step, ret>>
    /\ OpsUnchanged

Next ==
    \/ MainMissing
    \/ DanishBegin
    \/ V3_MenuPatch
    \/ V3_Snapshot
    \/ V3_PascalFindPatch
    \/ V3_FindPatch
    \/ V3_MsgPatch
    \/ V2_MenuPatch
    \/ V2_StringPatch
    \/ V2_MsgPatch
    \/ Legacy_Translate
    \/ DanishSave
    \/ VerifyDanish
    \/ CornerBegin
    \/ V3_CornerPatch
    \/ V2_CornerPatch
    \/ Legacy_CornerPatch
    \/ CornerSave
    \/ VerifyCorner

Spec == Init /\ [][Next]_vars

(***************************************************************************)
(* SpecStrings: the searched part of the v3 Danish run (string table and   *)
(* error messages), from the snapshot on.  The image the menu patches left *)
(* behind is arbitrary.  The entries are drawn as in Spec, but the table   *)
(* they form is remembered, and it is a table like the script's: no two    *)
(* of its patterns can lie across each other in an image.                  *)
(***************************************************************************)
\* a searched entry: the pattern given to find(), and where in the pattern
\* the patched range starts (1 for "Pass", found with its count byte; else 0)
Entry(pat, from) == [pat |-> pat, from |-> from]

\* the entries of the script, in the order of its statements
V3StringTable ==
    << Entry(<<4, 80, 97, 115, 115>>, 1),
       Entry(<<84, 105, 101, 32, 71, 97, 109, 101>>, 0),
       Entry(<<89, 111, 117, 32, 76, 111, 115, 116, 32, 98, 121, 32>>, 0),
       Entry(<<89, 111, 117, 32, 87, 111, 110, 32, 98, 121, 32>>, 0),
       Entry(<<65, 98, 111, 117, 116, 46, 46, 46>>, 0),
       Entry(<<89, 111, 117, 32, 109, 97, 121, 32, 111, 110, 108, 121, 32, 109,
               111, 118, 101, 32, 116, 111, 32, 97, 32, 115, 112, 97, 99, 101,
               32, 119, 104, 101, 114, 101, 32, 116, 104, 101, 32, 99, 117, 114,
               115, 111, 114, 32, 105, 115, 32, 97, 32, 99, 114, 111, 115, 115,
               46>>, 0),
       Entry(<<89, 111, 117, 32, 109, 97, 121, 32, 110, 111, 116, 32, 112, 97,
               115, 115, 46, 32, 32, 77, 111, 118, 101, 32, 119, 104, 101, 114,
               101, 32, 116, 104, 101, 32, 99, 117, 114, 115, 111, 114, 32, 105,
               115, 32, 97, 32, 99, 114, 111, 115, 115, 46>>, 0),
       Entry(<<89, 111, 117, 32, 109, 117, 115, 116, 32, 80, 97, 115, 115>>, 0) >>

\* an image can hold an occurrence of a.pat and, s bytes further, one of
\* b.pat, such that the patched ranges of the two share a byte
ClashAt(a, b, s) ==
    LET la == Len(a.pat)
        lb == Len(b.pat)
    IN  /\ \A k \in Max(0, s)..(Min(la, s + lb) - 1) : a.pat[k + 1] = b.pat[k - s + 1]
        /\ Max(a.from, s + b.from) < Min(la, s + lb)
CanClash(a, b) == \E s \in (0 - Len(b.pat))..Len(a.pat) : ClashAt(a, b, s)
ClashFree(t) == \A i, j \in 1..Len(t) : i < j => ~CanClash(t[i], t[j])
V3TableClashFree == ClashFree(V3StringTable)

\* a count byte (1) and the letter B; the translations are runs of the letter A
StringBytes == {1, 66}
StringImages == SeqsUpTo(StringBytes, MaxImageLen)
StringOld == SeqsUpTo(StringBytes, MaxPatchLen) \ {<<>>}

InitStrings ==
    /\ version = "v3"
    /\ source \in {File(b) : b \in StringImages}
    /\ pc = "menu"
    /\ data = source.bytes
    /\ exe_bytes = <<>>
    /\ n = 0
    /\ ok = 0
    /\ fail = 0
    /\ danish = NoFile
    /\ corner = NoFile
    /\ verdict = NoVerdict
    /\ log = <<>>
    /\ pre = <<>>
    /\ cur = NoCall
    /\ prev = NoPrev
    /\ table = <<>>
    /\ step = NoStep
    /\ ret = "none"

\* the next statement of the script searches for e
Searched(e) ==
    /\ ClashFree(Append(table, e))
    /\ table' = Append(table, e)
    /\ UNCHANGED <<pre, cur, prev>>

\* "Pass": find the string with its count byte, patch one byte further
Strings_PascalFindPatch ==
    /\ pc = "strings"
    /\ n < MaxDescriptors
    /\ \E old \in StringOld, new \in RunNew :
          LET pat == <<Len(old)>> \o old
              pass_offset == Find(exe_bytes, pat)
              out == PatchExact(data, pass_offset + 1, old, new)
          IN  /\ Searched(Entry(pat, 1))
              /\ IF pass_offset >= 0
                 THEN Tally("patch_exact", out, out.tag, Matches(data, pass_offset + 1, old),
                            Len(new) - Len(old), "crashed")
                 ELSE Skipped

\* string table and "You must Pass": find the string, patch where it was found
Strings_FindPatch ==
    /\ pc = "strings"
    /\ n < MaxDescriptors
    /\ \E old \in StringOld, new \in RunNew :
          LET tie_offset == Find(exe_bytes, old)
              out == PatchExact(data, tie_offset, old, new)
          IN  /\ Searched(Entry(old, 0))
              /\ IF tie_offset >= 0
                 THEN Tally("patch_exact", out, out.tag, Matches(data, tie_offset, old),
                            Len(new) - Len(old), "crashed")
                 ELSE Skipped

\* long error messages: find the message, fit the translation, patch
Strings_MsgPatch ==
    /\ pc = "strings"
    /\ n < MaxDescriptors
    /\ \E old_msg1 \in StringOld, new \in RunNew :
          LET msg1_offset == Find(exe_bytes, old_msg1)
              new_msg1 == FitSpace(new, Len(old_msg1))
              out == PatchExact(data, msg1_offset, old_msg1, new_msg1)
          IN  /\ Searched(Entry(old_msg1, 0))
              /\ IF msg1_offset >= 0
                 THEN Tally("patch_exact", out, out.tag, Matches(data, msg1_offset, old_msg1),
                            Len(new) - Len(old_msg1), "crashed")
                 ELSE Skipped

NextStrings ==
    \/ V3_Snapshot
    \/ Strings_PascalFindPatch
    \/ Strings_FindPatch
    \/ Strings_MsgPatch
    \/ DanishSave

SpecStrings == InitStrings /\ [][NextStrings]_vars

(***************************************************************************)
(* Properties of one call (SpecOps).                                       *)
(***************************************************************************)
VerifyingOps == {"patch_exact", "safe_patch_menu_string", "safe_patch_pascal_string",
                 "patch_bytes"}
AsciiOps == {"safe_patch_menu_string", "safe_patch_pascal_string"}

\* the descriptor of the last call, as bytes
CurEncodable == cur.op \in AsciiOps => (EncodeAscii(cur.old).ok /\ EncodeAscii(cur.new).ok)
CurSlot == Len(cur.old)
PreRange == Slice(pre, cur.offset, cur.offset + CurSlot)
PostRange == Slice(data, cur.offset, cur.offset + CurSlot)
PreMatches == PreRange = cur.old

\* C1: a verifying patch function called on a pre-image that differs from the
\* expected bytes (also when the range runs past the end of the image) does not
\* report success and leaves every byte of the image as it was.
C1_NoWriteOnMismatch ==
    (pc = "returned" /\ cur.op \in VerifyingOps /\ ~PreMatches)
        => (ret # "True" /\ data = pre)

\* a mismatch inside the image, with a replacement of the right length that
\* would have changed it, rejected by each of the four functions' comparison
C1_Witness ==
    /\ pc = "returned"
    /\ cur.op = "patch_exact"
    /\ ~PreMatches
    /\ cur.offset + CurSlot <= Len(pre)
    /\ Len(cur.new) = CurSlot
    /\ cur.new # PreRange
    /\ ret = "False"
    /\ data = pre

\* C4: a descriptor with len(replacement) = len(expected) whose expected bytes
\* are the pre-image is applied, and the target range then reads back as the
\* replacement.
C4_RoundTrip ==
    (/\ pc = "returned"
     /\ cur.op \in VerifyingOps
     /\ CurEncodable
     /\ Len(cur.new) = CurSlot
     /\ PreMatches)
        => (ret = "True" /\ PostRange = cur.new)

C4_Witness ==
    /\ pc = "returned"
    /\ cur.op = "safe_patch_menu_string"
    /\ Len(cur.new) = CurSlot
    /\ CurSlot = MaxPatchLen
    /\ PreMatches
    /\ cur.new # cur.old
    /\ ret = "True"
    /\ PostRange = cur.new

TextOps == {"patch_exact", "safe_patch_menu_string", "safe_patch_pascal_string",
            "patch_string"}
\* the functions that encode and pad the replacement themselves
EncodingOps == {"safe_patch_menu_string", "safe_patch_pascal_string", "patch_string"}
Printable(b) == b >= 32 /\ b <= 126

\* C11: a text replacement with a byte below 0x20 or above 0x7E is rejected
\* and the image is left as it was.
C11_CharsetRejection ==
    (/\ pc = "returned"
     /\ cur.op \in TextOps
     /\ \E i \in 1..Len(cur.new) : ~Printable(cur.new[i]))
        => (ret # "True" /\ data = pre)

\* the pad byte of the last call, and its replacement padded to the slot
CurPad == IF cur.op = "patch_string" THEN NUL ELSE SPACE
CurPadded == cur.new \o Repeat(CurPad, CurSlot - Len(cur.new))
CurTextEncodable ==
    IF cur.op = "patch_string"
    THEN EncodeLatin1(cur.old).ok /\ EncodeLatin1(cur.new).ok
    ELSE EncodeAscii(cur.old).ok /\ EncodeAscii(cur.new).ok

\* C12: an encoding function given a text longer than the slot fails and
\* changes nothing; given an encodable text that is not longer, on a matching
\* pre-image, it writes the text followed by slot - len(text) pad bytes: the
\* slot then holds exactly slot bytes, the first len(text) of them the text.
C12_EncodeToSlot ==
    (pc = "returned" /\ cur.op \in EncodingOps)
        => /\ Len(cur.new) > CurSlot => (ret # "True" /\ data = pre)
           /\ (Len(cur.new) <= CurSlot /\ CurTextEncodable /\ PreMatches) => ret = "True"
           /\ ret = "True" =>
                  /\ Len(cur.new) <= CurSlot
                  /\ Len(PostRange) = CurSlot
                  /\ PostRange = CurPadded
                  /\ Slice(data, cur.offset, cur.offset + Len(cur.new)) = cur.new

\* a one-character text written into a two-byte menu slot: the text, then a space
C12_Witness ==
    /\ pc = "returned"
    /\ cur.op = "safe_patch_menu_string"
    /\ ret = "True"
    /\ CurSlot = 2
    /\ Len(cur.new) = 1
    /\ PostRange = <<cur.new[1], SPACE>>
    /\ PreRange # PostRange

\* the bytes the last call set out to write
CurWritten == IF cur.op \in EncodingOps THEN CurPadded ELSE cur.new

\* C18: after a call, whether it returned or raised, either the whole image
\* is as it was or the call succeeded and the target range holds the whole
\* replacement.
C18_Atomic ==
    pc = "returned"
        => \/ data = pre
           \/ /\ ret = "True"
              /\ Slice(data, cur.offset, cur.offset + Len(CurWritten)) = CurWritten

(***************************************************************************)
(* Properties of two calls in a row (SpecTwice).                           *)
(***************************************************************************)
\* C19: when patch_exact (or patch_bytes) has applied a descriptor whose
\* replacement differs from its expected bytes, the same call made again
\* reports a mismatch and leaves the image as the first call left it.
C19_ReapplyHarmless ==
    (/\ pc = "returned2"
     /\ cur = prev.cur
     /\ cur.op \in TwiceOps
     /\ prev.ret = "True"
     /\ cur.new # cur.old)
        => (ret = "False" /\ data = pre)

\* patch_exact changed the image, and was then called again
C19_Witness ==
    /\ pc = "returned2"
    /\ cur = prev.cur
    /\ cur.op = "patch_exact"
    /\ prev.ret = "True"
    /\ pre # prev.pre
    /\ ret = "False"
    /\ data = pre

\* the two descriptors of a pair of patch_exact calls, and the image they
\* were applied to
BothPatchExact == pc = "returned2" /\ prev.cur.op = "patch_exact" /\ cur.op = "patch_exact"
Disjoint(a, b) ==
    \/ a.offset + Len(a.old) <= b.offset
    \/ b.offset + Len(b.old) <= a.offset
\* the other order: the second descriptor first, then the first
SwappedFirst == PatchExact(prev.pre, cur.offset, cur.old, cur.new)
SwappedSecond ==
    PatchExact(SwappedFirst.data, prev.cur.offset, prev.cur.old, prev.cur.new)

\* C20: two descriptors with disjoint target ranges applied by patch_exact
\* in either order leave the same image, and each gets the same outcome in
\* both orders.
C20_DisjointCommute ==
    (BothPatchExact /\ Disjoint(prev.cur, cur))
        => /\ data = SwappedSecond.data
           /\ ret = SwappedFirst.ret
           /\ prev.ret = SwappedSecond.ret

\* two disjoint descriptors, both applied, both changing the image
C20_Witness ==
    /\ BothPatchExact
    /\ Disjoint(prev.cur, cur)
    /\ prev.ret = "True"
    /\ ret = "True"
    /\ pre # prev.pre
    /\ data # pre
    /\ data = SwappedSecond.data

\* overlapping ranges: the first descriptor, applied, made the second one a
\* mismatch, though the second matched the image the pair started from
C20_OverlapTurnsMismatch ==
    /\ BothPatchExact
    /\ ~Disjoint(prev.cur, cur)
    /\ prev.ret = "True"
    /\ ret = "False"
    /\ SwappedFirst.ret = "True"

(***************************************************************************)
(* Properties of a run of main() (Spec).                                   *)
(***************************************************************************)
DanishOps == {"patch_exact", "safe_patch_menu_string", "safe_patch_pascal_string",
              "patch_string"}
\* pc values at which data holds the working image of a run
Working == pc \in {"menu", "strings", "danish", "danish_saved", "corner", "corner_saved",
                   "crashed", "done"}

\* C2: no run writes to the working image unless the operation compared the
\* range with the descriptor's expected bytes and found them equal.
C2_WriteOnlyAfterMatch == step.changed => step.matched

\* C3: after every operation of a run (verified patches whatever their
\* outcome, corner writes, also one that raised) the working image has the
\* length of the input image, and so has every file written.
C3_LengthInvariant ==
    /\ Working => Len(data) = Len(source.bytes)
    /\ danish.exists => Len(danish.bytes) = Len(source.bytes)
    /\ corner.exists => Len(corner.bytes) = Len(source.bytes)

\* a legacy corner patch (a slice assignment) that changed bytes before the
\* end of the image
C3_Witness ==
    /\ pc = "corner"
    /\ version = "legacy"
    /\ step.op = "patch_bytes"
    /\ step.changed
    /\ ret = "True"
    /\ data[Len(data)] = 1

\* C6: at the end of the Danish run every table entry has exactly one
\* recorded outcome: one printed outcome line each, and successes plus
\* failures equal to the number of entries.
C6_OneOutcomePerDescriptor ==
    pc = "danish_saved"
        => /\ Len(log) = n
           /\ version \in {"v3", "v2"} => ok + fail = n

\* C7: the Danish run never stops at a descriptor: no descriptor makes it
\* raise, each one is given its outcome in table order, and a descriptor
\* whose pre-image matches and whose replacement has the slot's length is
\* applied whatever happened to the descriptors before it.
C7_NoShortCircuit ==
    /\ step.op \in DanishOps => ~Raised(ret)
    /\ pc = "crashed" => step.op \notin DanishOps
    /\ (step.op \in DanishOps /\ step.matched /\ step.fits) => ret = "True"
    /\ (step.op \in DanishOps /\ ret = "True") => (log # <<>> /\ log[Len(log)] = "OK")

\* a rejected descriptor (mismatch or length error) directly followed by an
\* applied one in the same v3 run
C7_Witness ==
    /\ version = "v3"
    /\ n >= 2
    /\ Len(log) = n
    /\ log[n - 1] \in {"MISMATCH", "LEN ERR"}
    /\ log[n] = "OK"
    /\ step.changed
    /\ fail = n - 1
    /\ ok = 1

\* C8: the Danish file is written only after a run in which every descriptor
\* succeeded.
C8_PersistOnlyIfAccepted ==
    pc = "danish_saved" => (danish.exists => ok = n)

\* C9: a source image without the MZ marker or of the wrong length stops the
\* run before any descriptor is applied and before any file is written.
Malformed == source.exists /\ (~HasMagic(source.bytes) \/ Len(source.bytes) # ExpectedSize)
C9_PrecheckFatal ==
    Malformed => (step = NoStep /\ ~danish.exists /\ ~corner.exists)

\* C10: verification reports success (returns True without a warning) only
\* for a file of the expected length with both markers intact.
Intact(d) == Len(d) = ExpectedSize /\ HasMagic(d) /\ HasNeHeader(d)
Success(check) == check.ret = "True" /\ ~check.warn
C10_VerifyChecksAll ==
    /\ Success(verdict.danish_check) => Intact(danish.bytes)
    /\ Success(verdict.corner_check) => Intact(corner.bytes)

\* C13: a table entry whose replacement is longer than its slot is never
\* applied: it is rejected, nothing is written, and the failure is counted.
C13_NoTruncation ==
    (step.op \in DanishOps /\ step.excess > 0)
        => /\ ret # "True"
           /\ ~step.changed
           /\ version \in {"v3", "v2"} => fail >= 1

\* C14: a text replacement shorter than its slot that is applied is padded
\* with spaces: the run puts no NUL byte into the image (the source images
\* here hold none).
C14_PadIsSpace ==
    (step.op \in DanishOps /\ ret = "True" /\ step.excess < 0)
        => \A k \in 1..Len(data) : data[k] # NUL

DanishPhases == {"start", "menu", "strings", "danish", "danish_saved"}
CornerPhases == {"corner_start", "corner", "corner_saved"}

\* C15: no step changes the source file; each run starts from the bytes of
\* the source file; the corner run leaves the Danish file alone and the
\* Danish run the corner file.
C15_IndependentRuns ==
    [][/\ source' = source
       /\ (pc = "start" /\ pc' \in {"menu", "danish"}) => data' = source.bytes
       /\ (pc = "corner_start" /\ pc' = "corner") => data' = source.bytes
       /\ pc \in CornerPhases => danish' = danish
       /\ pc \in DanishPhases => corner' = corner]_vars

\* both files written, each different from the source and from the other
C15_Witness ==
    /\ pc = "corner_saved"
    /\ danish.exists
    /\ corner.exists
    /\ danish.bytes # source.bytes
    /\ corner.bytes # source.bytes
    /\ corner.bytes # danish.bytes

\* C16: as long as the Danish run has applied no descriptor (its table is
\* empty so far, or every entry was rejected or not found) the working image
\* is the input image, and so is the file it writes.
C16_NoOpRun ==
    (pc \in {"menu", "strings", "danish", "danish_saved"} /\ ok = 0)
        => /\ data = source.bytes
           /\ danish.exists => danish.bytes = source.bytes

\* a full v3 table of which every entry was rejected
C16_Witness ==
    /\ pc = "danish_saved"
    /\ version = "v3"
    /\ n = MaxDescriptors
    /\ fail = n
    /\ ok = 0
    /\ danish.bytes = source.bytes

LengthTags == {"LEN ERR", "ERROR", "LENGTH ERROR"}

\* C17: a descriptor whose expected bytes differ from the image gets the
\* mismatch outcome whatever the length of its replacement; a length outcome
\* is given only to a descriptor that matches and whose replacement has
\* another length than the expected bytes.
C17_CompareFirst ==
    (version \in {"v3", "v2"} /\ step.op \in DanishOps /\ ~Raised(ret))
        => /\ ~step.matched => log[Len(log)] = "MISMATCH"
           /\ log[Len(log)] \in LengthTags => (step.matched /\ ~step.fits)

(***************************************************************************)
(* Properties of the searched part of the v3 Danish run (SpecStrings).     *)
(***************************************************************************)
\* the positions at which the working image differs from the snapshot
Stale == {k \in 1..Len(data) : data[k] # exe_bytes[k]}

\* C21: no two patterns of the script's table can lie across each other,
\* and in a run over such a table every entry whose pattern is found in the
\* snapshot still finds its expected bytes in the working image: it is never
\* rejected as a mismatch.
C21_FoundNeverMismatch ==
    /\ V3TableClashFree
    /\ (pc \in {"strings", "danish_saved"} /\ step.op = "patch_exact")
          => (step.matched /\ log # <<>> /\ log[Len(log)] # "MISMATCH")

\* the working image already differed from the snapshot when a second found
\* entry was applied and changed it again
C21_Witness ==
    /\ pc = "strings"
    /\ Len(table) = 2
    /\ Len(table[1].pat) - table[1].from = 1
    /\ step.op = "patch_exact"
    /\ step.changed
    /\ ret = "True"
    /\ ok = 2
    /\ Cardinality(Stale) = 2

====
